---- MODULE Spec2Model ----
(***************************************************************************)
(* Model of playlist.py: the paginated fetch of the ranked tracks          *)
(* (get_top_tracks), the playlist locator (get_or_create_playlist), the    *)
(* reconciliation of a playlist with the ranked list (update_playlist)     *)
(* and the loop over the three time ranges (main).                         *)
(*                                                                         *)
(* A track is its uri, an opaque identifier: the integers 1..NumTracks.    *)
(* The streaming service is the environment: it holds the user's           *)
(* playlists and one ranking per time range, and any request to it may     *)
(* fail.  A failed request raises an exception that is an Exception.       *)
(* sys.exit raises SystemExit, which is not an Exception.                  *)
(***************************************************************************)
EXTENDS Integers, Sequences, FiniteSets, TLC

\* ---------------------------------------------------------------- bounds
\* Number of distinct track identifiers.
NumTracks == 4
\* track_limit of main (line 197), scaled down from 100.
track_limit == 3
\* The page size of get_top_tracks (the literal 50 of lines 68, 73, 77 and
\* 94), scaled down.  As in the program the limit is more than one page.
PageSize == 2
\* The number of items the service returns for the one playlist_items
\* request of line 147, which passes no limit and no offset: the service
\* answers such a request with one page of the playlist.  The page is taken
\* longer than track_limit, so that the read can return more tracks than the
\* limit (and line 167 cuts some) and can also miss the end of a playlist.
ItemsPage == 4
ListPage == 3         \* playlists in one page of the listing (50 in the library)
\* Longest playlist the user holds before the first run.
MaxPlaylistLen == 3
\* Number of successive processes started (Spec), of calls made (SpecUpdate).
MaxRuns == 2
MaxCalls == 3
NumInvocations == 2   \* concurrent invocations of get_or_create_playlist

\* ------------------------------------------------------ program constants
max_retries == 3

Tracks == 1..NumTracks

time_ranges == <<"short_term", "medium_term", "long_term">>

Windows == {time_ranges[n] : n \in DOMAIN time_ranges}

time_range_names ==
  [w \in Windows |-> CASE w = "short_term" -> "Last 4 Weeks"
                       [] w = "medium_term" -> "Last 6 Months"
                       [] OTHER -> "All Time"]

\* playlist_name of update_playlist; track_limit is the same in every call,
\* so the name is determined by the display name of the time range.
playlist_name(w) == time_range_names[w]

\* Variant: RequestException is imported, the handler of line 79 matches.
RequestExceptionImported == TRUE

\* `from requests.exceptions import Timeout` is the only name imported from
\* requests: the name RequestException used at line 79 is bound nowhere.
RequestExceptionBound == FALSE

\* ------------------------------------------------------- pure operations
Min(a, b) == IF a < b THEN a ELSE b

ToSet(s) == {s[n] : n \in DOMAIN s}

IsIn(x, s) == \E n \in DOMAIN s : s[n] = x

\* The python slice s[:n].
Take(s, n) == SubSeq(s, 1, Min(n, Len(s)))

\* Variant: the offset is not passed on, every request gets the first page.
TopTracksPage_IgnoresOffset(rank, off) == SubSeq(rank, 1, Min(PageSize, Len(rank)))

\* results['items'] of current_user_top_tracks(limit=50, offset=off, ...)
TopTracksPage(rank, off) ==
  SubSeq(rank, off + 1, Min(off + PageSize, Len(rank)))

\* results['items'] of playlist_items(id): one page of the playlist.
PlaylistItems(stored) == Take(stored, ItemsPage)

\* Line 107: user_playlists is called once, without limit or offset, and
\* returns the first page of the user's playlists.
UserPlaylists(stored) == Take(stored, ListPage)

\* Index of the first playlist of the listing whose name is `name`, 0 if none.
\* Variant: the search of the listing never finds the name.
FirstMatch_None(listing, name) == 0

FirstMatch(listing, name) ==
  IF \E n \in DOMAIN listing : listing[n].name = name
  THEN CHOOSE n \in DOMAIN listing :
         /\ listing[n].name = name
         /\ \A m \in 1..(n - 1) : listing[m].name # name
  ELSE 0

\* Variant: the tracks in both lists are left in playlist order.
KeptTracks_PlaylistOrder(top, cur) == SelectSeq(cur, LAMBDA u : IsIn(u, top))

\* Lines 157-159: the ranked tracks that are in the playlist, in rank order.
KeptTracks(top, cur) == SelectSeq(top, LAMBDA t : t \in ToSet(cur))

\* Variant: every ranked track is appended, without the membership test.
TracksToAdd_All(top, cur) == top

\* Lines 160-161: the ranked tracks that are not in the playlist.
TracksToAdd(top, cur) == SelectSeq(top, LAMBDA t : t \notin ToSet(cur))

\* Variant: the `not in new_track_list` test is missing.
Remaining_All(cur, placed) == cur

\* Variant: the tracks that left the ranking are not carried over.
Remaining_None(cur, placed) == <<>>

\* Line 164: the comprehension is evaluated against new_track_list as it is
\* before the extend, so a uri that is twice in cur is kept twice.
Remaining(cur, placed) == SelectSeq(cur, LAMBDA u : ~IsIn(u, placed))

\* Variant: the list is not trimmed.
Trim_None(list, limit) == list

\* Line 167.
Trim(list, limit) == Take(list, limit)

\* Lines 157-167: new_track_list as handed to playlist_replace_items.
\* Variant: the tracks outside the ranking are put before the ranked ones.
NewTrackList_TailFirst(top, cur, limit) ==
  Trim(Remaining(cur, KeptTracks(top, cur)) \o KeptTracks(top, cur), limit)

NewTrackList(top, cur, limit) ==
  Trim(KeptTracks(top, cur) \o Remaining(cur, KeptTracks(top, cur)), limit)

\* ----------------------------------------------------------------- state
VARIABLES
  playlists,      \* service: the user's playlists, [name, tracks], in listing order
  ranking,        \* service: the ranked tracks of each time range
  pc,             \* position of the program
  idx,            \* main: index of the for loop over time_ranges
  runs,           \* processes started so far
  ncalls,         \* calls of update_playlist made by the call harness
  time_range,     \* update_playlist: its argument
  tracks,         \* get_top_tracks: tracks
  offset,         \* get_top_tracks: offset
  attempt,        \* get_top_tracks: attempt
  new_tracks,     \* get_top_tracks: new_tracks, unbound until a page arrives
  down_left,      \* service: further top-track requests that will fail
  outage,         \* history: length of the first outage met by this fetch
  top_tracks,     \* update_playlist: top_tracks
  playlist,       \* update_playlist: playlist (its index in playlists)
  current_tracks, \* update_playlist: current_tracks
  new_track_list, \* update_playlist: new_track_list
  tracks_to_add,  \* update_playlist: tracks_to_add
  error,          \* the exception that ended the call, "none" if none
  calls,          \* history: requests sent to the service by this call
  reported,       \* history: time ranges whose summary this process printed
  mut_failed,     \* history: time ranges whose replace or append failed
  read_all,       \* history: the read of this call returned the whole playlist
  streak,         \* history: consecutive completed reconciles per time range
                  \*          that read the whole playlist
  locate_pc,      \* concurrent get_or_create_playlist: position of each invocation
  locate_found,   \* concurrent get_or_create_playlist: the match of its listing
  locate_log      \* history: requests of the concurrent invocations, in order

serviceVars == <<playlists, ranking>>
mainVars == <<idx, runs, ncalls>>
fetchVars == <<tracks, offset, attempt, new_tracks, down_left, outage>>
diffVars == <<top_tracks, playlist, current_tracks, new_track_list, tracks_to_add,
             read_all>>
histVars == <<reported, mut_failed, streak>>
raceVars == <<locate_pc, locate_found, locate_log>>
vars == <<serviceVars, mainVars, fetchVars, diffVars, histVars,
          pc, time_range, error, calls, raceVars>>

Unbound == [bound |-> FALSE, items |-> <<>>]

Request(op, off) == [op |-> op, offset |-> off]

\* Every sequence over S of length at most n.
SeqsUpTo(S, n) == UNION {[1..m -> S] : m \in 0..n}

\* The rankings the service may hold: the service ranks distinct tracks.
\* Track identifiers are opaque, so the tracks are numbered by rank.
Rankings == {[n \in 1..m |-> n] : m \in 0..NumTracks}

Playlist(name, ts) == [name |-> name, tracks |-> ts]

\* ------------------------------------------------------------ the program
\* The call ends: by an exception (p = "raised") or by sys.exit (p = "exit").
Abort(p, e) ==
  /\ pc' = p
  /\ error' = e
  /\ streak' = [streak EXCEPT ![time_range] = 0]

\* update_playlist(w, track_limit, is_private) is entered: lines 128-138 and
\* 58-62.  track_limit > 0, so the while loop of line 64 is entered.
EnterUpdatePlaylist(w) ==
  /\ time_range' = w
  /\ tracks' = <<>>
  /\ offset' = 0
  /\ attempt' = 0
  /\ new_tracks' = Unbound
  /\ outage' = 0
  /\ top_tracks' = <<>>
  /\ playlist' = 0
  /\ current_tracks' = <<>>
  /\ new_track_list' = <<>>
  /\ tracks_to_add' = <<>>
  /\ error' = "none"
  /\ calls' = <<>>
  /\ read_all' = FALSE
  /\ pc' = "get_top_tracks"

\* Lines 64-95: one request of a page.  The service decides k: 0, it answers;
\* k > 0, this request and the k - 1 that follow fail.
FetchRequest ==
  /\ pc = "get_top_tracks"
  /\ \E k \in (IF down_left > 0 THEN {down_left} ELSE 0..max_retries) :
       /\ calls' = Append(calls, Request("current_user_top_tracks", offset))
       /\ IF k = 0
          THEN LET page == TopTracksPage(ranking[time_range], offset)
                   all == tracks \o page
               IN /\ new_tracks' = [bound |-> TRUE, items |-> page]
                  /\ tracks' = all
                  /\ offset' = IF Len(page) < PageSize THEN offset
                               ELSE offset + PageSize
                  /\ attempt' = 0
                  /\ pc' = IF Len(page) < PageSize \/ Len(all) >= track_limit
                           THEN "fetch_return" ELSE "get_top_tracks"
                  /\ UNCHANGED <<down_left, outage, error, streak>>
          ELSE /\ down_left' = k - 1
               /\ outage' = IF outage = 0 THEN k ELSE outage
               /\ IF ~RequestExceptionBound
                  THEN \* line 79 evaluates RequestException: NameError
                       /\ Abort("raised", "NameError")
                       /\ UNCHANGED <<tracks, offset, attempt, new_tracks>>
                  ELSE IF attempt < max_retries - 1
                  THEN \* lines 84-85, 91-92: sleep and try again
                       /\ attempt' = attempt + 1
                       /\ UNCHANGED <<tracks, offset, new_tracks, pc, error, streak>>
                  ELSE IF ~new_tracks.bound
                  THEN \* line 94 reads new_tracks before any page arrived
                       /\ Abort("raised", "UnboundLocalError")
                       /\ UNCHANGED <<tracks, offset, attempt, new_tracks>>
                  ELSE \* line 94 reads the page of the previous offset
                       /\ attempt' = 0
                       /\ pc' = IF Len(new_tracks.items) < PageSize
                                THEN "fetch_return" ELSE "get_top_tracks"
                       /\ UNCHANGED <<tracks, offset, new_tracks, error, streak>>
  /\ UNCHANGED <<serviceVars, mainVars, diffVars, time_range, reported, mut_failed>>
  /\ UNCHANGED raceVars

\* Variant: the accumulated tracks are returned without the slice to the limit.
FetchReturn_NoSlice ==
  /\ pc = "fetch_return"
  /\ top_tracks' = tracks
  /\ IF tracks = <<>>
     THEN /\ pc' = "returned"
          /\ streak' = [streak EXCEPT ![time_range] = 0]
     ELSE /\ pc' = "sp_me"
          /\ UNCHANGED streak
  /\ UNCHANGED <<serviceVars, mainVars, fetchVars, playlist, current_tracks,
                 new_track_list, tracks_to_add, read_all, time_range, error,
                 calls, reported, mut_failed>>
  /\ UNCHANGED raceVars

\* Lines 97-98 and 138-141: get_top_tracks returns tracks[:limit]; with no
\* top tracks update_playlist returns at once.
FetchReturn ==
  /\ pc = "fetch_return"
  /\ top_tracks' = Take(tracks, track_limit)
  /\ IF Take(tracks, track_limit) = <<>>
     THEN /\ pc' = "returned"
          /\ streak' = [streak EXCEPT ![time_range] = 0]
     ELSE /\ pc' = "sp_me"
          /\ UNCHANGED streak
  /\ UNCHANGED <<serviceVars, mainVars, fetchVars, playlist, current_tracks,
                 new_track_list, tracks_to_add, read_all, time_range, error,
                 calls, reported, mut_failed>>
  /\ UNCHANGED raceVars

\* Line 106, under the handler of lines 120-122.
LocateMe ==
  /\ pc = "sp_me"
  /\ calls' = Append(calls, Request("me", 0))
  /\ \E ok \in BOOLEAN :
       IF ok THEN pc' = "user_playlists" /\ UNCHANGED <<error, streak>>
       ELSE Abort("exit", "SystemExit")
  /\ UNCHANGED <<serviceVars, mainVars, fetchVars, diffVars, time_range,
                 reported, mut_failed>>
  /\ UNCHANGED raceVars

\* Lines 107-110 and 118: the listing and the search for the name.
LocateList ==
  /\ pc = "user_playlists"
  /\ calls' = Append(calls, Request("user_playlists", 0))
  /\ \E ok \in BOOLEAN :
       IF ok
       THEN /\ playlist' = FirstMatch(UserPlaylists(playlists), playlist_name(time_range))
            /\ pc' = IF FirstMatch(UserPlaylists(playlists), playlist_name(time_range)) # 0
                     THEN "change_details" ELSE "create"
            /\ UNCHANGED <<error, streak>>
       ELSE /\ Abort("exit", "SystemExit")
            /\ UNCHANGED playlist
  /\ UNCHANGED <<serviceVars, mainVars, fetchVars, top_tracks, current_tracks,
                 new_track_list, tracks_to_add, read_all, time_range, reported,
                 mut_failed>>
  /\ UNCHANGED raceVars

\* Lines 111-117: the metadata of the playlist found is set again (visibility
\* and description are not part of the state: nothing reads them).
LocateUpdate ==
  /\ pc = "change_details"
  /\ calls' = Append(calls, Request("user_playlist_change_details", 0))
  /\ \E ok \in BOOLEAN :
       IF ok THEN pc' = "playlist_items" /\ UNCHANGED <<error, streak>>
       ELSE Abort("exit", "SystemExit")
  /\ UNCHANGED <<serviceVars, mainVars, fetchVars, diffVars, time_range,
                 reported, mut_failed>>
  /\ UNCHANGED raceVars

\* Line 119: a new, empty playlist of that name; the service lists the
\* newest playlist first.
LocateCreate ==
  /\ pc = "create"
  /\ calls' = Append(calls, Request("user_playlist_create", 0))
  /\ \E ok \in BOOLEAN :
       IF ok
       THEN /\ playlists' = <<Playlist(playlist_name(time_range), <<>>)>> \o playlists
            /\ playlist' = 1
            /\ pc' = "playlist_items"
            /\ UNCHANGED <<error, streak>>
       ELSE /\ Abort("exit", "SystemExit")
            /\ UNCHANGED <<playlists, playlist>>
  /\ UNCHANGED <<ranking, mainVars, fetchVars, top_tracks, current_tracks,
                 new_track_list, tracks_to_add, read_all, time_range, reported,
                 mut_failed>>
  /\ UNCHANGED raceVars

\* Lines 145-167: the read of the playlist (under no handler) and the diff.
ReadAndDiff ==
  /\ pc = "playlist_items"
  /\ calls' = Append(calls, Request("playlist_items", 0))
  /\ \E ok \in BOOLEAN :
       IF ok
       THEN LET cur == PlaylistItems(playlists[playlist].tracks)
            IN /\ current_tracks' = cur
               /\ read_all' = (cur = playlists[playlist].tracks)
               /\ new_track_list' = NewTrackList(top_tracks, cur, track_limit)
               /\ tracks_to_add' = TracksToAdd(top_tracks, cur)
               /\ pc' = "replace"
               /\ UNCHANGED <<error, streak>>
       ELSE /\ Abort("raised", "Exception")
            /\ UNCHANGED <<current_tracks, new_track_list, tracks_to_add, read_all>>
  /\ UNCHANGED <<serviceVars, mainVars, fetchVars, top_tracks, playlist,
                 time_range, reported, mut_failed>>
  /\ UNCHANGED raceVars

\* Variant: the append is issued whether or not there are tracks to add.
ReplaceItems_AlwaysAppend ==
  /\ pc = "replace"
  /\ calls' = Append(calls, Request("playlist_replace_items", 0))
  /\ \E ok \in BOOLEAN :
       IF ok
       THEN /\ playlists' = [playlists EXCEPT ![playlist].tracks = new_track_list]
            /\ pc' = "add_items"
            /\ UNCHANGED <<error, streak, mut_failed>>
       ELSE /\ Abort("exit", "SystemExit")
            /\ mut_failed' = mut_failed \cup {time_range}
            /\ UNCHANGED playlists
  /\ UNCHANGED <<ranking, mainVars, fetchVars, diffVars, time_range, reported>>
  /\ UNCHANGED raceVars

\* Lines 169-176: the replace, under the handler of lines 172-174.
ReplaceItems ==
  /\ pc = "replace"
  /\ calls' = Append(calls, Request("playlist_replace_items", 0))
  /\ \E ok \in BOOLEAN :
       IF ok
       THEN /\ playlists' = [playlists EXCEPT ![playlist].tracks = new_track_list]
            /\ pc' = IF tracks_to_add # <<>> THEN "add_items" ELSE "summary"
            /\ UNCHANGED <<error, streak, mut_failed>>
       ELSE /\ Abort("exit", "SystemExit")
            /\ mut_failed' = mut_failed \cup {time_range}
            /\ UNCHANGED playlists
  /\ UNCHANGED <<ranking, mainVars, fetchVars, diffVars, time_range, reported>>
  /\ UNCHANGED raceVars

\* Variant: the append is clamped so that the playlist stays within the limit.
AddItems_Clamped ==
  /\ pc = "add_items"
  /\ calls' = Append(calls, Request("playlist_add_items", 0))
  /\ \E ok \in BOOLEAN :
       IF ok
       THEN /\ playlists' = [playlists EXCEPT
                               ![playlist].tracks = Take(@ \o tracks_to_add, track_limit)]
            /\ pc' = "summary"
            /\ UNCHANGED <<error, streak, mut_failed>>
       ELSE /\ Abort("exit", "SystemExit")
            /\ mut_failed' = mut_failed \cup {time_range}
            /\ UNCHANGED playlists
  /\ UNCHANGED <<ranking, mainVars, fetchVars, diffVars, time_range, reported>>
  /\ UNCHANGED raceVars

\* Lines 177-182: the append, under the handler of lines 180-182.
AddItems ==
  /\ pc = "add_items"
  /\ calls' = Append(calls, Request("playlist_add_items", 0))
  /\ \E ok \in BOOLEAN :
       IF ok
       THEN /\ playlists' = [playlists EXCEPT
                               ![playlist].tracks = @ \o tracks_to_add]
            /\ pc' = "summary"
            /\ UNCHANGED <<error, streak, mut_failed>>
       ELSE /\ Abort("exit", "SystemExit")
            /\ mut_failed' = mut_failed \cup {time_range}
            /\ UNCHANGED playlists
  /\ UNCHANGED <<ranking, mainVars, fetchVars, diffVars, time_range, reported>>
  /\ UNCHANGED raceVars

\* Lines 184-189: the summary is printed and update_playlist returns.
Summary ==
  /\ pc = "summary"
  /\ reported' = reported \cup {time_range}
  /\ streak' = [streak EXCEPT ![time_range] = IF read_all THEN Min(@ + 1, MaxCalls)
                                               ELSE 0]
  /\ pc' = "returned"
  /\ UNCHANGED <<serviceVars, mainVars, fetchVars, diffVars, time_range,
                 error, calls, mut_failed>>
  /\ UNCHANGED raceVars

UpdatePlaylistStep ==
  \/ FetchRequest
  \/ FetchReturn
  \/ LocateMe
  \/ LocateList
  \/ LocateUpdate
  \/ LocateCreate
  \/ ReadAndDiff
  \/ ReplaceItems
  \/ AddItems
  \/ Summary

\* Lines 14-52: the client is set up; a failure exits with status 1.
Setup ==
  /\ pc = "setup"
  /\ \E ok \in BOOLEAN : pc' = IF ok THEN "main" ELSE "exit"
  /\ UNCHANGED <<serviceVars, mainVars, fetchVars, diffVars, histVars,
                 time_range, error, calls>>
  /\ UNCHANGED raceVars

\* Lines 201-203: the next time range is handed to update_playlist.
MainCall ==
  /\ pc = "main"
  /\ idx <= Len(time_ranges)
  /\ EnterUpdatePlaylist(time_ranges[idx])
  /\ UNCHANGED <<serviceVars, mainVars, down_left, histVars>>
  /\ UNCHANGED raceVars

\* Line 201: update_playlist returned, the loop goes on.
MainContinue ==
  /\ pc = "returned"
  /\ idx' = idx + 1
  /\ pc' = "main"
  /\ UNCHANGED <<serviceVars, runs, ncalls, fetchVars, diffVars, histVars,
                 time_range, error, calls>>
  /\ UNCHANGED raceVars

\* Lines 204-206: an Exception of update_playlist is logged, the loop goes on.
MainCatch ==
  /\ pc = "raised"
  /\ idx' = idx + 1
  /\ pc' = "main"
  /\ UNCHANGED <<serviceVars, runs, ncalls, fetchVars, diffVars, histVars,
                 time_range, error, calls>>
  /\ UNCHANGED raceVars

\* Line 208: the loop is over.
MainDone ==
  /\ pc = "main"
  /\ idx > Len(time_ranges)
  /\ pc' = "done"
  /\ UNCHANGED <<serviceVars, mainVars, fetchVars, diffVars, histVars,
                 time_range, error, calls>>
  /\ UNCHANGED raceVars

\* The program is started again (it is run periodically).
NewRun ==
  /\ pc \in {"done", "exit"}
  /\ runs < MaxRuns
  /\ runs' = runs + 1
  /\ idx' = 1
  /\ pc' = "setup"
  /\ reported' = {}
  /\ mut_failed' = {}
  /\ error' = "none"
  /\ UNCHANGED <<serviceVars, ncalls, fetchVars, diffVars, streak, time_range, calls>>
  /\ UNCHANGED raceVars

\* update_playlist is called on its own, for the first time range.
CallUpdatePlaylist ==
  /\ pc \in {"idle", "returned", "raised", "exit"}
  /\ ncalls < MaxCalls
  /\ ncalls' = ncalls + 1
  /\ EnterUpdatePlaylist(time_ranges[1])
  /\ UNCHANGED <<serviceVars, idx, runs, down_left, histVars>>
  /\ UNCHANGED raceVars

\* ------------------------------------ concurrent get_or_create_playlist
\* Invocations of get_or_create_playlist(RaceName, ...) by processes of the
\* same user, interleaved at the requests to the service (lines 105-122).
Invocations == 1..NumInvocations

RaceName == playlist_name(time_ranges[1])

singleVars == <<ranking, mainVars, fetchVars, diffVars, histVars,
                pc, time_range, error, calls>>

LocateEvent(p, op, ok) == [proc |-> p, op |-> op, ok |-> ok]

\* Line 106, under the handler of lines 120-122.
GetOrCreateMe(p) ==
  /\ locate_pc[p] = "sp_me"
  /\ \E ok \in BOOLEAN :
       /\ locate_log' = Append(locate_log, LocateEvent(p, "me", ok))
       /\ locate_pc' = [locate_pc EXCEPT ![p] = IF ok THEN "user_playlists" ELSE "exit"]
  /\ UNCHANGED <<playlists, locate_found, singleVars>>

\* Lines 107-110 and 118: the listing and the search for the name.
GetOrCreateList(p) ==
  /\ locate_pc[p] = "user_playlists"
  /\ \E ok \in BOOLEAN :
       /\ locate_log' = Append(locate_log, LocateEvent(p, "user_playlists", ok))
       /\ IF ok
          THEN LET n == FirstMatch(UserPlaylists(playlists), RaceName)
               IN /\ locate_found' = [locate_found EXCEPT ![p] = (n # 0)]
                  /\ locate_pc' = [locate_pc EXCEPT
                                     ![p] = IF n # 0 THEN "change_details" ELSE "create"]
          ELSE /\ locate_pc' = [locate_pc EXCEPT ![p] = "exit"]
               /\ UNCHANGED locate_found
  /\ UNCHANGED <<playlists, singleVars>>

\* Lines 111-117: the playlist found is updated and returned.
GetOrCreateUpdate(p) ==
  /\ locate_pc[p] = "change_details"
  /\ \E ok \in BOOLEAN :
       /\ locate_log' = Append(locate_log, LocateEvent(p, "user_playlist_change_details", ok))
       /\ locate_pc' = [locate_pc EXCEPT ![p] = IF ok THEN "returned" ELSE "exit"]
  /\ UNCHANGED <<playlists, locate_found, singleVars>>

\* Line 119: a new playlist of the name is created and returned.
GetOrCreateCreate(p) ==
  /\ locate_pc[p] = "create"
  /\ \E ok \in BOOLEAN :
       /\ locate_log' = Append(locate_log, LocateEvent(p, "user_playlist_create", ok))
       /\ IF ok
          THEN /\ playlists' = <<Playlist(RaceName, <<>>)>> \o playlists
               /\ locate_pc' = [locate_pc EXCEPT ![p] = "returned"]
          ELSE /\ locate_pc' = [locate_pc EXCEPT ![p] = "exit"]
               /\ UNCHANGED playlists
  /\ UNCHANGED <<locate_found, singleVars>>

\* --------------------------------------------------------- specifications
InitLocals ==
  /\ idx = 1
  /\ time_range = time_ranges[1]
  /\ tracks = <<>>
  /\ offset = 0
  /\ attempt = 0
  /\ new_tracks = Unbound
  /\ down_left = 0
  /\ outage = 0
  /\ top_tracks = <<>>
  /\ playlist = 0
  /\ current_tracks = <<>>
  /\ new_track_list = <<>>
  /\ tracks_to_add = <<>>
  /\ error = "none"
  /\ calls = <<>>
  /\ reported = {}
  /\ mut_failed = {}
  /\ read_all = FALSE
  /\ streak = [w \in Windows |-> 0]

\* One process, one call at a time: no concurrent invocation.
NoInvocations ==
  /\ locate_pc = <<>>
  /\ locate_found = <<>>
  /\ locate_log = <<>>

\* The whole program: the user holds no playlist of the three names, or one
\* of each that the program made earlier, or also one of another name.
RunRankings == {r \in Rankings : Len(r) \in {0, 1, NumTracks}}

RunPlaylists ==
  { <<>>,
    <<Playlist("Other", <<1>>)>>,
    <<Playlist("Other", <<1>>), Playlist(playlist_name("medium_term"), <<NumTracks, 1>>)>>,
    [n \in 1..ListPage |-> Playlist("Other", <<1>>)]
      \o <<Playlist(playlist_name("medium_term"), <<NumTracks, 1>>)>> }

Init ==
  /\ playlists \in RunPlaylists
  /\ ranking \in [Windows -> RunRankings]
  /\ pc = "setup"
  /\ runs = 1
  /\ ncalls = 0
  /\ InitLocals
  /\ NoInvocations

Next ==
  \/ Setup
  \/ MainCall
  \/ UpdatePlaylistStep
  \/ MainContinue
  \/ MainCatch
  \/ MainDone
  \/ NewRun

Spec == Init /\ [][Next]_vars

\* get_or_create_playlist alone, invoked by NumInvocations processes at once
\* for one name; the user has no playlist of the name, or one, and maybe
\* another playlist.
RacePlaylists ==
  { <<>>,
    <<Playlist("Other", <<1>>)>>,
    <<Playlist(RaceName, <<1>>)>>,
    <<Playlist("Other", <<1>>), Playlist(RaceName, <<1>>)>> }

InitRace ==
  /\ playlists \in RacePlaylists
  /\ ranking = [w \in Windows |-> <<>>]
  /\ pc = "concurrent"
  /\ runs = 1
  /\ ncalls = 0
  /\ InitLocals
  /\ locate_pc = [p \in Invocations |-> "sp_me"]
  /\ locate_found = [p \in Invocations |-> FALSE]
  /\ locate_log = <<>>

NextRace ==
  \E p \in Invocations :
    \/ GetOrCreateMe(p)
    \/ GetOrCreateList(p)
    \/ GetOrCreateUpdate(p)
    \/ GetOrCreateCreate(p)

SpecRace == InitRace /\ [][NextRace]_vars

\* update_playlist alone, called MaxCalls times for one time range, with any
\* ranking and any playlist of up to MaxPlaylistLen tracks (or none).  The
\* service lets the user put a track into a playlist more than once, so the
\* playlist is any sequence of tracks.
UpdatePlaylists ==
  {<<>>} \cup
  {<<Playlist(playlist_name(time_ranges[1]), ts)>> : ts \in SeqsUpTo(Tracks, MaxPlaylistLen)}

InitUpdate ==
  /\ playlists \in UpdatePlaylists
  /\ \E r \in Rankings : ranking = [w \in Windows |-> r]
  /\ pc = "idle"
  /\ runs = 1
  /\ ncalls = 0
  /\ InitLocals
  /\ NoInvocations

NextUpdate ==
  \/ CallUpdatePlaylist
  \/ UpdatePlaylistStep

SpecUpdate == InitUpdate /\ [][NextUpdate]_vars

\* ------------------------------------------------------------ properties
RECURSIVE Filter(_, _)
\* The entries of s that are in the set S, in the order of s.
Filter(s, S) ==
  IF s = <<>> THEN <<>>
  ELSE (IF Head(s) \in S THEN <<Head(s)>> ELSE <<>>) \o Filter(Tail(s), S)

NoDuplicates(s) == \A m, n \in DOMAIN s : m # n => s[m] # s[n]

\* The diff of this call has been computed.
Diffed == pc \in {"replace", "add_items", "summary"}

\* The playlist as the service stores it (of the call in progress).
Stored == playlists[playlist].tracks

\* The diff is computed from a read that returned the whole playlist.
WholeRead == Diffed /\ read_all

Ranked == ToSet(top_tracks)
Current == ToSet(current_tracks)

\* C1: when the replace or the append of medium_term has failed, the run is
\* not aborted: the process ends only after long_term has been processed.
C1_WindowIsolation ==
  (pc \in {"done", "exit"} /\ "medium_term" \in mut_failed)
    => (pc = "done" /\ time_range = "long_term")

\* C2: the sequence applied by a completed reconcile, the replaced list
\* followed by the appended tracks, has at most track_limit entries (stated
\* for the playlists that hold no track twice).
C2_AppliedWithinLimit ==
  (pc = "summary" /\ NoDuplicates(current_tracks))
    => Len(new_track_list) + Len(tracks_to_add) <= track_limit

C4_SecondRunNoChange ==
  (WholeRead /\ streak[time_range] >= 1)
    => (new_track_list = current_tracks /\ tracks_to_add = <<>>)

\* C4 as amended: such a second reconcile has nothing to add, and its
\* new_track_list is the ranked tracks in rank order followed by the other
\* tracks of the playlist, which may differ from the order read; a third
\* such reconcile computes new_track_list equal to the playlist it read.
\* Both when the read returned the whole playlist.
C4_SecondRunAddsNothing ==
  /\ (WholeRead /\ streak[time_range] >= 1)
       => /\ tracks_to_add = <<>>
          /\ new_track_list =
               Take(top_tracks \o Filter(current_tracks, Tracks \ Ranked), track_limit)
  /\ (WholeRead /\ streak[time_range] >= 2)
       => (new_track_list = current_tracks /\ tracks_to_add = <<>>)

C4_Witness ==
  /\ WholeRead /\ streak[time_range] = 1
  /\ new_track_list # current_tracks
  /\ Current \ Ranked # {}

\* C5: after a reconcile in which no request failed the playlist is the first
\* track_limit entries of (ranked tracks already in the playlist, in rank
\* order, then the other tracks of the playlist in their old order), followed
\* by the ranked tracks that were not in the playlist, in rank order.
C5_FinalSequence ==
  /\ pc = "summary"
       => Stored = Take(Filter(top_tracks, Current)
                          \o Filter(current_tracks, Tracks \ Ranked), track_limit)
                   \o Filter(top_tracks, Tracks \ Current)
  /\ (pc = "summary" /\ top_tracks = <<1, 2, 3>> /\ current_tracks = <<3, 4>>)
       => Stored = <<3, 4, 1, 2>>

C5_Witness ==
  /\ pc = "summary"
  /\ top_tracks = <<1, 2, 3>>
  /\ current_tracks = <<3, 4>>
  /\ Stored = <<3, 4, 1, 2>>

\* Position of a ranked track in the ranked list.
RankOf(t) == CHOOSE n \in DOMAIN top_tracks : top_tracks[n] = t

\* C6: the tracks that are both in the playlist and in the ranked list are
\* all in new_track_list, and any two of them stand there in rank order.
C6_RankOrder ==
  Diffed =>
    /\ \A t \in Ranked \cap Current : IsIn(t, new_track_list)
    /\ \A m, n \in DOMAIN new_track_list :
         (m < n /\ new_track_list[m] \in Ranked /\ new_track_list[n] \in Ranked)
           => RankOf(new_track_list[m]) < RankOf(new_track_list[n])

\* Two tracks of both lists stood in the playlist against their rank order.
C6_Witness ==
  /\ Diffed
  /\ \E m, n \in DOMAIN current_tracks :
       /\ m < n
       /\ current_tracks[m] \in Ranked /\ current_tracks[n] \in Ranked
       /\ RankOf(current_tracks[m]) > RankOf(current_tracks[n])

\* C7: the tracks of the playlist that are not ranked stand in new_track_list
\* after every ranked one, in their old relative order, and only those that
\* the trim to track_limit cuts are missing; a completed reconcile leaves
\* exactly those non-ranked tracks in the playlist.
C7_StickyTail ==
  /\ Diffed =>
       /\ \A m, n \in DOMAIN new_track_list :
            (m < n /\ new_track_list[m] \notin Ranked) => new_track_list[n] \notin Ranked
       /\ Filter(new_track_list, Tracks \ Ranked) =
            Take(Filter(current_tracks, Tracks \ Ranked),
                 track_limit - Cardinality(Ranked \cap Current))
  /\ pc = "summary" =>
       Filter(Stored, Tracks \ Ranked) = Filter(new_track_list, Tracks \ Ranked)

\* Two non-ranked tracks are kept behind a ranked one, a third is cut.
C7_Witness ==
  /\ pc = "summary"
  /\ Ranked \cap Current # {}
  /\ Len(Filter(new_track_list, Tracks \ Ranked)) >= 2
  /\ Len(Filter(current_tracks, Tracks \ Ranked)) >
       Len(Filter(new_track_list, Tracks \ Ranked))

\* C8: when the replaced list has exactly track_limit entries and there are
\* tracks to add, the playlist has track_limit + len(tracks_to_add) entries
\* after the append.
C8_Overshoot ==
  (pc = "summary" /\ Len(new_track_list) = track_limit /\ tracks_to_add # <<>>)
    => Len(Stored) = track_limit + Len(tracks_to_add)

C8_Witness ==
  /\ pc = "summary"
  /\ Len(new_track_list) = track_limit
  /\ Len(tracks_to_add) >= 2
  /\ Len(Stored) = track_limit + Len(tracks_to_add)

\* The call was ended by an error of get_top_tracks.
FetchRaised == pc = "raised" /\ error \in {"NameError", "UnboundLocalError"}

\* C9: when the requests of a page fail once or twice in a row (fewer times
\* than max_retries) before the service answers again, get_top_tracks
\* retries and raises no error.
C9_TransientFailureRetried ==
  outage \in 1..(max_retries - 1) => ~FetchRaised

\* C10: when every attempt for a page fails (max_retries requests in a row),
\* get_top_tracks returns what it accumulated and raises no error.
C10_ExhaustedRetriesReturn ==
  outage >= max_retries => ~FetchRaised

\* The requests of top tracks sent by this call for the page at offset off.
PageRequests(off) ==
  {n \in DOMAIN calls : calls[n] = Request("current_user_top_tracks", off)}

\* C11: within one call of get_top_tracks the page at any offset is requested
\* at most max_retries times, whatever the service answers.
C11_AtMostMaxRetries ==
  \A off \in 0..(track_limit + PageSize) : Cardinality(PageRequests(off)) <= max_retries

\* The first page arrived, the request of the second page failed.
C11_Witness ==
  /\ FetchRaised
  /\ Cardinality(PageRequests(0)) = 1
  /\ Cardinality(PageRequests(PageSize)) = 1

\* C12: when no request fails, get_top_tracks asks for the pages at offsets
\* 0, PageSize, 2 * PageSize, ..., accumulates them in rank order and returns
\* the first min(limit, M) of the M tracks the service ranks.
C12_FetchResult ==
  LET rank == ranking[time_range] IN
  /\ pc = "fetch_return" =>
       /\ \A n \in DOMAIN calls :
            calls[n] = Request("current_user_top_tracks", (n - 1) * PageSize)
       /\ tracks = Take(rank, PageSize * Len(calls))
       /\ Len(tracks) >= track_limit \/ Len(tracks) = Len(rank)
  /\ pc = "sp_me" =>
       /\ top_tracks = Take(rank, track_limit)
       /\ Len(top_tracks) = Min(track_limit, Len(rank))

\* The last page fetched more than the limit, and the result is cut to it.
C12_Witness ==
  /\ pc = "sp_me"
  /\ Len(calls) >= 2
  /\ Len(tracks) > track_limit
  /\ Len(top_tracks) = track_limit

\* The requests named op sent by this call.
Ops(op) == {n \in DOMAIN calls : calls[n].op = op}

\* C13: when the first page of a window's fetch is empty or cannot be
\* obtained, get_top_tracks yields an empty sequence and update_playlist
\* returns (the window is skipped) without any playlist request.
C13_NoFirstPageSkips ==
  (pc \in {"returned", "raised"} /\ tracks = <<>> /\ calls # <<>>)
    => /\ pc = "returned"
       /\ top_tracks = <<>>
       /\ \A n \in DOMAIN calls : calls[n].op = "current_user_top_tracks"

LocateOps == {"user_playlists", "user_playlist_change_details", "user_playlist_create"}

\* C14: a failure of the listing, of the metadata update or of the create
\* abandons only its window: the process does not end there while a later
\* time range is still to be processed.
C14_LocateFailureIsolated ==
  (pc = "exit" /\ error = "SystemExit" /\ calls # <<>>
     /\ calls[Len(calls)].op \in LocateOps)
    => time_range = time_ranges[Len(time_ranges)]

\* C15: in a reconcile the replace is requested once and before the append,
\* the append at most once and only with tracks to add; between the replace
\* and the append, and when the append failed, the playlist is new_track_list.
C15_ReplaceThenAppend ==
  /\ Cardinality(Ops("playlist_replace_items")) <= 1
  /\ Cardinality(Ops("playlist_add_items")) <= 1
  /\ \A a \in Ops("playlist_add_items") :
       \E r \in Ops("playlist_replace_items") : r < a
  /\ Ops("playlist_add_items") # {} => tracks_to_add # <<>>
  /\ pc = "summary" =>
       /\ Cardinality(Ops("playlist_replace_items")) = 1
       /\ tracks_to_add # <<>> => Ops("playlist_add_items") # {}
  /\ (pc = "add_items" \/ (pc = "exit" /\ Ops("playlist_add_items") # {}))
       => Stored = new_track_list

\* The append failed after a replace that reordered a non-empty playlist.
C15_Witness ==
  /\ pc = "exit"
  /\ Ops("playlist_add_items") # {}
  /\ tracks_to_add # <<>>
  /\ new_track_list # <<>>
  /\ new_track_list # current_tracks
  /\ Stored = new_track_list

\* The tracks of the read that are not in the ranked list, in playlist order.
NonRanked == Filter(current_tracks, Tracks \ Ranked)

\* C18: with whole reads and no failure, from a duplicate-free playlist, the
\* second consecutive reconcile of a window leaves the ranked list in rank
\* order followed by the surviving non-ranked tracks, within the limit; a
\* third and later reconcile leaves the playlist as it read it.
C18_FixedPoint ==
  /\ (pc = "summary" /\ read_all /\ streak[time_range] >= 1
        /\ NoDuplicates(current_tracks))
       => /\ Stored = top_tracks \o Take(NonRanked, track_limit - Len(top_tracks))
          /\ Len(Stored) <= track_limit
  /\ (pc = "summary" /\ read_all /\ streak[time_range] >= 2
        /\ NoDuplicates(current_tracks))
       => Stored = current_tracks

\* A third reconcile in a row of a playlist that holds ranked tracks and a
\* survivor from outside the ranking.
C18_Witness ==
  /\ pc = "summary" /\ read_all /\ streak[time_range] >= 2
  /\ NoDuplicates(current_tracks)
  /\ Len(top_tracks) >= 2
  /\ NonRanked # <<>>
  /\ Stored = current_tracks

\* C19: when a reconcile has completed its requests, every track of the
\* fetched ranked list is in the playlist, and the tracks that the
\* truncation to track_limit removed are all outside the ranked list.
C19_RankedAllPresent ==
  pc = "summary" =>
    /\ \A t \in Ranked : IsIn(t, Stored)
    /\ LET kept == KeptTracks(top_tracks, current_tracks)
           retained == kept \o Remaining(current_tracks, kept)
       IN \A n \in DOMAIN retained :
            n > track_limit => retained[n] \notin Ranked

\* The truncation removed a track, tracks were retained and tracks were added.
C19_Witness ==
  /\ pc = "summary"
  /\ LET kept == KeptTracks(top_tracks, current_tracks)
     IN /\ kept # <<>>
        /\ Len(kept \o Remaining(current_tracks, kept)) > track_limit
  /\ tracks_to_add # <<>>
  /\ Len(tracks) > track_limit

\* The playlists of the user that carry the name of window w.
Named(w) == {n \in DOMAIN playlists : playlists[n].name = playlist_name(w)}

\* C20: over sequential runs that start with at most one playlist per
\* window name, no window name is ever carried by more than one playlist.
C20_AtMostOnePerName == \A w \in Windows : Cardinality(Named(w)) <= 1

\* One run of the program: a started process keeps executing its steps
\* until it ends.
MainStep ==
  \/ Setup
  \/ MainCall
  \/ UpdatePlaylistStep
  \/ MainContinue
  \/ MainCatch
  \/ MainDone

SpecFair == Init /\ [][MainStep]_vars /\ WF_vars(MainStep)

\* C17: every call of get_top_tracks ends, by returning or by raising,
\* whatever the upstream does: each request that leaves the call inside its
\* loop has added tracks below the limit, and the call is eventually left;
\* hence every run that has started ends.
C17_Terminates ==
  /\ [][(pc = "get_top_tracks" /\ pc' = "get_top_tracks")
          => (Len(tracks') > Len(tracks) /\ Len(tracks) < track_limit)]_vars
  /\ (pc = "get_top_tracks") ~> (pc # "get_top_tracks")
  /\ (pc = "setup") ~> (pc \in {"done", "exit"})

\* The first page was obtained and a later request failed: the call has ended.
C17_Witness ==
  /\ FetchRaised
  /\ tracks # <<>>
  /\ Len(tracks) < track_limit
  /\ outage >= max_retries

\* The positions in locate_log of the successful requests op of invocation p.
Done(p, op) == {n \in DOMAIN locate_log : locate_log[n] = LocateEvent(p, op, TRUE)}

Creators == {p \in Invocations : Done(p, "user_playlist_create") # {}}

\* C16: when several interleaved invocations for one name have each created
\* a playlist, each of them listed before any of them created, and the user
\* has as many playlists of the name as there are creators (none at the
\* start); an invocation that listed after a create found the playlist.
C16_DuplicatesByRace ==
  /\ \A p, q \in Creators :
       \A l \in Done(p, "user_playlists") :
         \A c \in Done(q, "user_playlist_create") : l < c
  /\ Creators # {} => Cardinality(Named(time_ranges[1])) = Cardinality(Creators)
  /\ \A p \in Invocations : locate_found[p] => p \notin Creators

\* Two invocations have returned and the user has two playlists of the name.
C16_Witness ==
  /\ Cardinality(Named(time_ranges[1])) >= 2
  /\ Cardinality(Creators) >= 2
  /\ \A p \in Creators : locate_pc[p] = "returned"

====
